---- MODULE Spec2Model ----
(***************************************************************************)
(* A model of src/verification_examples.rs: the exercise functions abs,   *)
(* maximum, fib, find, find_max, sort, binary_search and the predicate    *)
(* sorted, each run as one call on arguments drawn from bounded sets.     *)
(* Rust indices are 0-based; TLA+ sequences are 1-based, so element k of  *)
(* a vector s is s[k + 1].                                                 *)
(***************************************************************************)
EXTENDS Integers, Sequences, FiniteSets, TLC

(* ----------------------------- bounds --------------------------------- *)

\* longest vector / slice passed to a function
MaxLen == 3
\* vector elements, keys and search values range over -MaxVal..MaxVal
MaxVal == 2
\* largest argument of fib
MaxFibN == 8
\* abs is called on -AbsRange..AbsRange and on the ends of the i32 range
AbsRange == 6

(* ------------------------- program constants -------------------------- *)

\* i32::MAX; i32::MIN is -i32::MAX - 1
I32Max == 2147483647
I32Min == (-I32Max) - 1

(* ------------------------------ state --------------------------------- *)

VARIABLES
    fn,               \* the function being called
    args,             \* its arguments, a record with the parameters' names
    overflow_checks,  \* TRUE: arithmetic overflow panics; FALSE: it wraps
    pc,               \* "call", "loop" (maximum's loop head), "done", "panic"
    max, n, i,        \* maximum's locals: candidate, length, range position
    stack,            \* fib's call stack, innermost frame last
    ret,              \* value returned by the fib call that just finished
    slice,            \* contents of the slice that sort borrows
    result            \* << >> until the call returns, then << value >>

vars == <<fn, args, overflow_checks, pc, max, n, i, stack, ret, slice, result>>

(* --------------------------- value domains ---------------------------- *)

Vals == (0 - MaxVal)..MaxVal

RECURSIVE SeqsUpTo(_)
SeqsUpTo(k) ==
    IF k = 0 THEN {<<>>}
    ELSE LET shorter == SeqsUpTo(k - 1)
         IN  shorter \cup {Append(s, v) : s \in {t \in shorter : Len(t) = k - 1}, v \in Vals}

Vecs == SeqsUpTo(MaxLen)

AbsInputs == ((0 - AbsRange)..AbsRange) \cup {I32Min, I32Min + 1, I32Max - 1, I32Max}

\* Option<T>
None == [is_some |-> FALSE]
Some(v) == [is_some |-> TRUE, value |-> v]

\* the outcome of evaluating an expression: a value or a panic
Ok(v) == [panic |-> FALSE, value |-> v]
Panic == [panic |-> TRUE]

(* ------------------------------- abs ---------------------------------- *)

\* -x on i32: the only overflowing operand is i32::MIN, whose two's
\* complement negation is i32::MIN again
Neg(x, checks) ==
    IF x = I32Min
    THEN IF checks THEN Panic ELSE Ok(I32Min)
    ELSE Ok(0 - x)

abs_flipped(x, checks) == IF x > 0 THEN Neg(x, checks) ELSE Ok(x)

abs(x, checks) == IF x < 0 THEN Neg(x, checks) ELSE Ok(x)

abs_call ==
    /\ fn = "abs" /\ pc = "call"
    /\ LET r == abs(args.x, overflow_checks)
       IN  IF r.panic
           THEN pc' = "panic" /\ UNCHANGED result
           ELSE pc' = "done" /\ result' = <<r.value>>
    /\ UNCHANGED <<fn, args, overflow_checks, max, n, i, stack, ret, slice>>

\* test_abs: v = abs(3), then assert!(0 <= v)
test_abs_call ==
    /\ fn = "test_abs" /\ pc = "call"
    /\ LET r == abs(3, overflow_checks)
       IN  IF r.panic \/ ~(0 <= r.value)
           THEN pc' = "panic" /\ UNCHANGED result
           ELSE pc' = "done" /\ result' = <<r.value>>
    /\ UNCHANGED <<fn, args, overflow_checks, max, n, i, stack, ret, slice>>

(* ----------------------------- maximum -------------------------------- *)

\* Vec::get
Get(s, k) == IF k < Len(s) THEN Some(s[k + 1]) ELSE None

\* if max < cur_val { max = cur_val }
UpdateMaxFlipped(m, cur_val) == IF m > cur_val THEN cur_val ELSE m
UpdateMaxStale(m, cur_val) == m

UpdateMax(m, cur_val) == IF m < cur_val THEN cur_val ELSE m

\* let mut max = values.get(0).unwrap(); let n = values.len();
maximum_entry_default ==
    /\ fn = "maximum" /\ pc = "call"
    /\ LET first == Get(args.values, 0)
       IN  /\ pc' = "loop"
           /\ max' = IF first.is_some THEN first.value ELSE 0
           /\ n' = Len(args.values)
           /\ i' = 0
    /\ UNCHANGED <<fn, args, overflow_checks, stack, ret, slice, result>>

maximum_entry ==
    /\ fn = "maximum" /\ pc = "call"
    /\ LET first == Get(args.values, 0)
       IN  IF first.is_some
           THEN /\ pc' = "loop"
                /\ max' = first.value
                /\ n' = Len(args.values)
                /\ i' = 0
           ELSE pc' = "panic" /\ UNCHANGED <<max, n, i>>
    /\ UNCHANGED <<fn, args, overflow_checks, stack, ret, slice, result>>

\* one iteration of for i in 0..n
maximum_iter ==
    /\ fn = "maximum" /\ pc = "loop" /\ i < n
    /\ LET cur_val == Get(args.values, i)
       IN  IF cur_val.is_some
           THEN /\ max' = UpdateMax(max, cur_val.value)
                /\ i' = i + 1
                /\ pc' = "loop"
           ELSE pc' = "panic" /\ UNCHANGED <<max, i>>
    /\ UNCHANGED <<fn, args, overflow_checks, n, stack, ret, slice, result>>

\* the range is exhausted: *max
maximum_exit ==
    /\ fn = "maximum" /\ pc = "loop" /\ ~(i < n)
    /\ pc' = "done"
    /\ result' = <<max>>
    /\ UNCHANGED <<fn, args, overflow_checks, max, n, i, stack, ret, slice>>

(* ------------------------------- fib ---------------------------------- *)

\* A frame is one activation of fib: its argument, where it is in the body
\* ("enter", "wait1": fib(n - 1) is running or has just returned, "wait2":
\* the same for fib(n - 2)) and the value of fib(n - 1) once known.
Frame(k) == [n |-> k, stage |-> "enter", left |-> 0]

Top == stack[Len(stack)]
Pop == SubSeq(stack, 1, Len(stack) - 1)
ReplaceTop(f) == [stack EXCEPT ![Len(stack)] = f]

\* the innermost activation returns v
FibReturn(v) ==
    /\ stack' = Pop
    /\ IF Len(stack) = 1
       THEN pc' = "done" /\ result' = <<v>> /\ UNCHANGED ret
       ELSE ret' = v /\ UNCHANGED <<pc, result>>

\* if n == 0 { 0 } else if n == 1 { 1 }
FibBaseZero(k) == 0

FibBase(k) == IF k = 0 THEN 0 ELSE 1

\* fib(n - 1) + fib(n - 2) on u32. Every sum the bounded calls form is
\* below 2^31, where u32 addition is exact.
FibAdd(l, r) == l + r

fib_enter ==
    /\ fn = "fib" /\ pc = "call" /\ stack # <<>>
    /\ Top.stage = "enter"
    /\ IF Top.n = 0 \/ Top.n = 1
       THEN FibReturn(FibBase(Top.n))
       ELSE /\ stack' = Append(ReplaceTop([Top EXCEPT !.stage = "wait1"]), Frame(Top.n - 1))
            /\ UNCHANGED <<pc, ret, result>>
    /\ UNCHANGED <<fn, args, overflow_checks, max, n, i, slice>>

fib_second ==
    /\ fn = "fib" /\ pc = "call" /\ stack # <<>>
    /\ Top.stage = "wait1"
    /\ stack' = Append(ReplaceTop([Top EXCEPT !.stage = "wait2", !.left = ret]), Frame(Top.n - 2))
    /\ UNCHANGED <<fn, args, overflow_checks, pc, max, n, i, ret, slice, result>>

fib_add ==
    /\ fn = "fib" /\ pc = "call" /\ stack # <<>>
    /\ Top.stage = "wait2"
    /\ FibReturn(FibAdd(Top.left, ret))
    /\ UNCHANGED <<fn, args, overflow_checks, max, n, i, slice>>

(* ------------------------- find and find_max -------------------------- *)

\* the body of find: 0 as usize
find(a, key) == 0

find_call ==
    /\ fn = "find" /\ pc = "call"
    /\ pc' = "done"
    /\ result' = <<find(args.a, args.key)>>
    /\ UNCHANGED <<fn, args, overflow_checks, max, n, i, stack, ret, slice>>

\* the body of find_max: 0 as usize
find_max(a) == 0

find_max_call ==
    /\ fn = "find_max" /\ pc = "call"
    /\ pc' = "done"
    /\ result' = <<find_max(args.a)>>
    /\ UNCHANGED <<fn, args, overflow_checks, max, n, i, stack, ret, slice>>

(* --------------------------- sort and sorted -------------------------- *)

\* the body of sort is empty: the slice is left as it was
sort(a) == a

sort_call ==
    /\ fn = "sort" /\ pc = "call"
    /\ pc' = "done"
    /\ slice' = sort(slice)
    /\ result' = <<TRUE>>
    /\ UNCHANGED <<fn, args, overflow_checks, max, n, i, stack, ret>>

\* the body of the predicate sorted: true
sorted(a) == TRUE

sorted_call ==
    /\ fn = "sorted" /\ pc = "call"
    /\ pc' = "done"
    /\ result' = <<sorted(args.a)>>
    /\ UNCHANGED <<fn, args, overflow_checks, max, n, i, stack, ret, slice>>

(* --------------------------- binary_search ---------------------------- *)

\* the body of binary_search: None
binary_search(a, val) == None

\* #[requires(0 <= a.len() && sorted(&a))]
binary_search_requires(a) == 0 <= Len(a) /\ sorted(a)

binary_search_call ==
    /\ fn = "binary_search" /\ pc = "call"
    /\ pc' = "done"
    /\ result' = <<binary_search(args.a, args.val)>>
    /\ UNCHANGED <<fn, args, overflow_checks, max, n, i, stack, ret, slice>>

(* --------------------------- specification ---------------------------- *)

Fns == {"abs", "test_abs", "maximum", "fib", "find", "find_max",
        "sort", "sorted", "binary_search"}

ArgsOf(f) ==
    CASE f = "abs" -> [x : AbsInputs]
      [] f = "test_abs" -> {[x |-> 3]}
      [] f = "maximum" -> [values : Vecs]
      [] f = "fib" -> [n : 0..MaxFibN]
      [] f = "find" -> [a : Vecs, key : Vals]
      [] f = "find_max" -> [a : Vecs]
      [] f = "sort" -> [a : Vecs]
      [] f = "sorted" -> [a : Vecs]
      [] f = "binary_search" -> {r \in [a : Vecs, val : Vals] : binary_search_requires(r.a)}

Init ==
    /\ fn \in Fns
    /\ args \in ArgsOf(fn)
    /\ overflow_checks \in BOOLEAN
    /\ pc = "call"
    /\ max = 0 /\ n = 0 /\ i = 0
    /\ stack = IF fn = "fib" THEN <<Frame(args.n)>> ELSE <<>>
    /\ ret = 0
    /\ slice = IF fn = "sort" THEN args.a ELSE <<>>
    /\ result = <<>>

Next ==
    \/ abs_call
    \/ test_abs_call
    \/ maximum_entry
    \/ maximum_iter
    \/ maximum_exit
    \/ fib_enter
    \/ fib_second
    \/ fib_add
    \/ find_call
    \/ find_max_call
    \/ sort_call
    \/ sorted_call
    \/ binary_search_call

Spec == Init /\ [][Next]_vars

\* a call in progress keeps executing until it returns or panics
FairSpec == Spec /\ WF_vars(Next)

(* ------------------------ vocabulary of the claims -------------------- *)

Elems(s) == {s[k] : k \in 1..Len(s)}

Count(s, v) == Cardinality({k \in 1..Len(s) : s[k] = v})

IsPermutation(s, t) ==
    /\ Len(s) = Len(t)
    /\ \A v \in Elems(s) \cup Elems(t) : Count(s, v) = Count(t, v)

\* every adjacent pair is non-decreasing
NonDecreasing(s) == \A k \in 1..(Len(s) - 1) : s[k] <= s[k + 1]

\* the greatest of the first k elements of s (k >= 1)
GreatestOfPrefix(s, k) == CHOOSE m \in {s[j] : j \in 1..k} : \A j \in 1..k : s[j] <= m

\* the Fibonacci numbers
RECURSIVE Fibonacci(_)
Fibonacci(k) == IF k = 0 THEN 0 ELSE IF k = 1 THEN 1 ELSE Fibonacci(k - 1) + Fibonacci(k - 2)

Returned(f) == fn = f /\ pc = "done"

(* ------------------------------- claims ------------------------------- *)

\* C1: on a non-decreasing a, binary_search(a, val) returns Some(i) with
\* i < len(a) and a[i] = val exactly when val occurs in a, and None otherwise.
C1_BinarySearchFindsOccurrences ==
    (Returned("binary_search") /\ NonDecreasing(args.a)) =>
        LET r == result[1]
        IN  IF args.val \in Elems(args.a)
            THEN r.is_some /\ r.value < Len(args.a) /\ args.a[r.value + 1] = args.val
            ELSE ~r.is_some

\* C2: if find(a, key) returns a valid index i then i < len(a) and a[i] = key;
\* if it returns a value that is not a valid index (the "not found" sentinel)
\* then no element of a equals key.
C2_FindContract ==
    Returned("find") =>
        LET r == result[1]
        IN  IF r < Len(args.a)
            THEN args.a[r + 1] = args.key
            ELSE args.key \notin Elems(args.a)

\* C3: after sort returns, the slice is a permutation of its contents before
\* the call and is non-decreasing, and the predicate sorted holds on it.
C3_SortSortsAPermutation ==
    Returned("sort") =>
        /\ IsPermutation(slice, args.a)
        /\ NonDecreasing(slice)
        /\ sorted(slice)

\* C4: on a non-empty vector maximum returns a value that is >= every element
\* and equal to at least one element.
C4_MaximumIsGreatestElement ==
    (fn = "maximum" /\ args.values # <<>>) =>
        /\ pc # "panic"
        /\ pc = "done" =>
              /\ \A e \in Elems(args.values) : result[1] >= e
              /\ result[1] \in Elems(args.values)

C4_Witness ==
    /\ Returned("maximum")
    /\ Len(args.values) >= 2
    /\ args.values[1] < result[1]

\* C5: on a non-empty vector find_max returns an index i < len(a) with a[i]
\* >= every element of a.
C5_FindMaxIndexOfGreatest ==
    (Returned("find_max") /\ args.a # <<>>) =>
        /\ result[1] < Len(args.a)
        /\ \A e \in Elems(args.a) : args.a[result[1] + 1] >= e

\* C6 as stated: for every i32 x, abs(x) returns a result with result >= 0,
\* result = x or result = -x, and result = x whenever x >= 0.
C6_AbsOnEveryI32 ==
    fn = "abs" =>
        /\ pc # "panic"
        /\ pc = "done" =>
              /\ result[1] >= 0
              /\ result[1] = args.x \/ (args.x # I32Min /\ result[1] = 0 - args.x)
              /\ args.x >= 0 => result[1] = args.x

\* C6 amended: for every i32 x other than i32::MIN, abs(x) returns a result
\* with result >= 0, result = x or result = -x, and result = x whenever
\* x >= 0; abs(i32::MIN) returns no non-negative value: it panics when
\* overflow is checked and returns i32::MIN when it wraps.
C6_AbsExceptI32Min ==
    fn = "abs" =>
        IF args.x # I32Min
        THEN /\ pc # "panic"
             /\ pc = "done" =>
                   /\ result[1] >= 0
                   /\ result[1] = args.x \/ result[1] = 0 - args.x
                   /\ args.x >= 0 => result[1] = args.x
        ELSE /\ pc = "panic" => overflow_checks
             /\ pc = "done" => (~overflow_checks /\ result[1] = I32Min)

C6_Witness ==
    /\ Returned("abs")
    /\ args.x < 0
    /\ args.x # I32Min
    /\ result[1] = 0 - args.x

\* C7: fib(0) = 0, fib(1) = 1, fib(n) for n >= 2 is the sum of the two
\* preceding Fibonacci numbers (fib(6) = 8), and every call terminates.
C7_FibValue ==
    Returned("fib") =>
        /\ result[1] = Fibonacci(args.n)
        /\ args.n = 0 => result[1] = 0
        /\ args.n = 1 => result[1] = 1
        /\ args.n = 6 => result[1] = 8

C7_FibIsFibonacci ==
    /\ []C7_FibValue
    /\ (fn = "fib") ~> (pc = "done" /\ stack = <<>>)

C7_Witness ==
    /\ Returned("fib")
    /\ args.n = 6
    /\ result = <<8>>

\* C8: sorted(a) is true if and only if every adjacent pair of a is
\* non-decreasing.
C8_SortedIffNonDecreasing ==
    Returned("sorted") => (result[1] <=> NonDecreasing(args.a))

\* C9: maximum on an empty vector returns no value: it panics before any
\* element is read and before any loop iteration runs.
C9_EmptyNeverReturns ==
    (fn = "maximum" /\ args.values = <<>>) =>
        /\ pc \in {"call", "panic"}
        /\ result = <<>>
        /\ i = 0 /\ max = 0 /\ n = 0

C9_MaximumOfEmptyPanics ==
    /\ []C9_EmptyNeverReturns
    /\ (fn = "maximum" /\ args.values = <<>>) ~> (pc = "panic")

C9_Witness ==
    /\ fn = "maximum"
    /\ args.values = <<>>
    /\ pc = "panic"

\* C10: at every loop head of maximum on a non-empty vector the candidate max
\* is the greatest of the elements examined so far (values[0] before the first
\* iteration, the greatest of the first i elements after i iterations), the
\* loop position never exceeds len(values), and the loop ends after exactly
\* len(values) iterations.
C10_LoopHead ==
    (fn = "maximum" /\ pc \in {"loop", "done"}) =>
        /\ n = Len(args.values)
        /\ i <= Len(args.values)
        /\ max = GreatestOfPrefix(args.values, IF i = 0 THEN 1 ELSE i)
        /\ pc = "done" => i = Len(args.values)

C10_MaximumLoopInvariant ==
    /\ []C10_LoopHead
    /\ (fn = "maximum" /\ pc = "loop") ~> (Returned("maximum") /\ i = Len(args.values))

C10_Witness ==
    /\ fn = "maximum"
    /\ pc = "loop"
    /\ i = 2
    /\ i < n
    /\ max = args.values[2]
    /\ max > args.values[1]

====
